---- MODULE Spec2Model ----
(***************************************************************************)
(* zeichenformer: the three tokenizers of the C core.                      *)
(*   BinaryTokenizer    (binary.c)    bisection tokens of a real interval  *)
(*   CategoryTokenizer  (category.c)  index into a sorted vocabulary       *)
(*   TimestampTokenizer (timestamp.c) six tokens, one per component; the   *)
(*                      file holds two variants (offset / fixed buckets)   *)
(* A C string is a sequence of byte codes; a double is a record that is a  *)
(* number (exact, in fixed-point units), an infinity or NaN.               *)
(***************************************************************************)
EXTENDS Integers, Sequences, FiniteSets, TLC

VARIABLES bt, b_last, b_values, b_value, b_indices, b_dec_in, b_decoded,
          ct, c_mem, c_last, c_values, c_value, c_token, c_decoded,
          tt, t_build, t_last, t_iso, t_tokens, t_count, t_output

bvars == <<bt, b_last, b_values, b_value, b_indices, b_dec_in, b_decoded>>
cvars == <<ct, c_mem, c_last, c_values, c_value, c_token, c_decoded>>
tvars == <<tt, t_build, t_last, t_iso, t_tokens, t_count, t_output>>
vars == <<bvars, cvars, tvars>>

(***************************************************************************)
(* Bounds of the numeric model.                                            *)
(***************************************************************************)
MaxBits == 3
MaxFitVal == 2
MaxFitLen == 2

\* one unit of the fitted grid: every halving the code performs is exact
Unit == 2 ^ (MaxBits + 2)

\* stands for DBL_MAX of <float.h>: above every finite value of the model
DblMax == 1024 * Unit

(***************************************************************************)
(* IEEE doubles: number, infinity (v = sign) or NaN.                       *)
(***************************************************************************)
Num(x) == [k |-> "num", v |-> x]
INF(s) == [k |-> "inf", v |-> s]
NAN == [k |-> "nan", v |-> 0]
DBL_MAX == Num(DblMax)

isnan(a) == a.k = "nan"

\* position of a non-NaN double on the extended real line
DOrd(a) == IF a.k = "inf" THEN a.v * (DblMax + 1) ELSE a.v

DLt(a, b) == ~isnan(a) /\ ~isnan(b) /\ DOrd(a) < DOrd(b)
DGt(a, b) == DLt(b, a)
DLe(a, b) == ~isnan(a) /\ ~isnan(b) /\ DOrd(a) <= DOrd(b)
DGe(a, b) == DLe(b, a)

DNeg(a) == IF isnan(a) THEN NAN ELSE [k |-> a.k, v |-> 0 - a.v]

DAdd(a, b) ==
    IF isnan(a) \/ isnan(b) THEN NAN
    ELSE IF a.k = "inf" /\ b.k = "inf" THEN (IF a.v = b.v THEN a ELSE NAN)
    ELSE IF a.k = "inf" THEN a
    ELSE IF b.k = "inf" THEN b
    ELSE IF a.v + b.v > DblMax THEN INF(1)
    ELSE IF a.v + b.v < 0 - DblMax THEN INF(-1)
    ELSE Num(a.v + b.v)

DSub(a, b) == DAdd(a, DNeg(b))

\* x / 2.0 (exact on the grid the model draws its numbers from)
DHalf(a) == IF a.k = "num" THEN Num((a.v - (a.v % 2)) \div 2) ELSE a

(***************************************************************************)
(* BinaryTokenizer                                                         *)
(***************************************************************************)
binary_init(num_bits) ==
    [num_bits |-> num_bits, min_val |-> NAN, max_val |-> NAN, fitted |-> FALSE]

RECURSIVE binary_fit_scan(_, _, _, _)
binary_fit_scan(values, i, min, max) ==
    IF i > Len(values) THEN <<min, max>>
    ELSE binary_fit_scan(values, i + 1,
                         IF DLt(values[i], min) THEN values[i] ELSE min,
                         IF DGt(values[i], max) THEN values[i] ELSE max)


binary_fit_mut(t, values) ==
    IF Len(values) = 0 THEN t
    ELSE LET mm == binary_fit_scan(values, 1, DBL_MAX, DNeg(DBL_MAX))
         IN  [t EXCEPT !.min_val = mm[1], !.max_val = mm[2], !.fitted = TRUE]

binary_fit(t, values) ==
    IF Len(values) = 0 THEN [t EXCEPT !.fitted = FALSE]
    ELSE LET mm == binary_fit_scan(values, 1, DBL_MAX, DNeg(DBL_MAX))
         IN  [t EXCEPT !.min_val = mm[1], !.max_val = mm[2], !.fitted = TRUE]

RECURSIVE binary_encode_loop_mut(_, _, _, _, _, _)
binary_encode_loop_mut(t, value, b, center, width, indices) ==
    IF b >= t.num_bits THEN indices
    ELSE IF DGe(value, center)
         THEN binary_encode_loop_mut(t, value, b + 1, DAdd(center, DHalf(width)),
                                     DHalf(width), Append(indices, b))
         ELSE binary_encode_loop_mut(t, value, b + 1, DSub(center, DHalf(width)),
                                     DHalf(width), indices)

RECURSIVE binary_encode_loop(_, _, _, _, _, _)
binary_encode_loop(t, value, b, center, width, indices) ==
    IF b >= t.num_bits THEN indices
    ELSE IF DGt(value, center)
         THEN binary_encode_loop(t, value, b + 1, DAdd(center, DHalf(width)),
                                 DHalf(width), Append(indices, b))
         ELSE binary_encode_loop(t, value, b + 1, DSub(center, DHalf(width)),
                                 DHalf(width), indices)


binary_encode_range_mut(t, value) == DGe(value, t.min_val)

binary_encode_range(t, value) == DGe(value, t.min_val) /\ DLe(value, t.max_val)


binary_encode_mut(t, value) ==
    IF ~t.fitted \/ isnan(value) THEN <<>>
    ELSE IF ~binary_encode_range(t, value) THEN <<>>
    ELSE binary_encode_loop(t, value, 0,
                            DHalf(DAdd(t.min_val, t.max_val)),
                            DSub(t.max_val, t.min_val), <<>>)

binary_encode(t, value) ==
    IF ~t.fitted \/ isnan(value) THEN <<>>
    ELSE IF ~binary_encode_range(t, value) THEN <<>>
    ELSE binary_encode_loop(t, value, 0,
                            DHalf(DAdd(t.min_val, t.max_val)),
                            DHalf(DSub(t.max_val, t.min_val)), <<>>)

RECURSIVE binary_decode_loop(_, _, _, _, _)
binary_decode_loop(t, indices, b, value, width) ==
    IF b >= t.num_bits THEN value
    ELSE LET active == \E i \in 1..Len(indices) : indices[i] = b
         IN  binary_decode_loop(t, indices, b + 1,
                 DAdd(value, IF active THEN DHalf(width) ELSE DNeg(DHalf(width))),
                 DHalf(width))

binary_decode(t, indices) ==
    IF ~t.fitted \/ Len(indices) = 0 THEN NAN
    ELSE binary_decode_loop(t, indices, 0,
                            DHalf(DAdd(t.min_val, t.max_val)),
                            DHalf(DSub(t.max_val, t.min_val)))

(***************************************************************************)
(* Inputs of the numeric model.                                            *)
(***************************************************************************)
SeqsUpTo(S, n) == UNION {[1..m -> S] : m \in 0..n}

\* The callers (the binding layer) are sequential and keep the arguments and
\* the result of a call in locals: x_last is the caller's position, x_values
\* the array it passed to fit; a new call starts only when the caller holds
\* neither, and both are dropped when the caller returns.
Idle == {"init", "idle"}

FitValues == {Num(i * Unit) : i \in 0..MaxFitVal} \cup {NAN, INF(1), INF(-1)}

EncodeValues ==
    {Num(x) : x \in (0 - 1)..(MaxFitVal * Unit + 1)} \cup {NAN, INF(1), INF(-1)}

DecodeInputs == SeqsUpTo((0 - 1)..MaxBits, 2)

BinStart ==
    /\ bt = binary_init(1)
    /\ b_last = "init"
    /\ b_values = <<>>
    /\ b_value = NAN
    /\ b_indices = <<>>
    /\ b_dec_in = <<>>
    /\ b_decoded = NAN

BinaryInit ==
    /\ b_last \in Idle
    /\ \E num_bits \in 0..MaxBits : bt' = binary_init(num_bits)
    /\ b_last' = "init"
    /\ b_values' = <<>>
    /\ b_value' = NAN
    /\ b_indices' = <<>>
    /\ b_dec_in' = <<>>
    /\ b_decoded' = NAN

BinaryFit ==
    /\ b_last \in Idle
    /\ \E values \in SeqsUpTo(FitValues, MaxFitLen) :
          /\ b_values' = values
          /\ bt' = binary_fit(bt, values)
    /\ b_last' = "fit"
    /\ b_value' = NAN
    /\ b_indices' = <<>>
    /\ b_dec_in' = <<>>
    /\ b_decoded' = NAN


BinaryEncode_mut ==
    /\ b_last \in Idle
    /\ \E value \in EncodeValues :
          /\ b_value' = value
          /\ b_indices' = binary_encode(bt, value)
          /\ bt' = IF bt.fitted THEN binary_fit(bt, <<bt.min_val, bt.max_val, value>>) ELSE bt
    /\ b_last' = "encode"
    /\ b_values' = <<>>
    /\ b_dec_in' = <<>>
    /\ b_decoded' = NAN

BinaryEncode ==
    /\ b_last \in Idle
    /\ \E value \in EncodeValues :
          /\ b_value' = value
          /\ b_indices' = binary_encode(bt, value)
    /\ b_last' = "encode"
    /\ b_values' = <<>>
    /\ b_dec_in' = <<>>
    /\ b_decoded' = NAN
    /\ UNCHANGED bt

\* decode of the indices the preceding encode returned
BinaryDecodeEncoded ==
    /\ b_last = "encode"
    /\ b_last' = "roundtrip"
    /\ b_dec_in' = b_indices
    /\ b_decoded' = binary_decode(bt, b_indices)
    /\ UNCHANGED <<bt, b_values, b_value, b_indices>>

BinaryDecode ==
    /\ b_last \in Idle
    /\ \E indices \in DecodeInputs :
          /\ b_dec_in' = indices
          /\ b_decoded' = binary_decode(bt, indices)
    /\ b_last' = "decode"
    /\ b_values' = <<>>
    /\ b_value' = NAN
    /\ b_indices' = <<>>
    /\ UNCHANGED bt

BinaryReturn ==
    /\ b_last \notin Idle
    /\ b_last' = "idle"
    /\ b_values' = <<>>
    /\ b_value' = NAN
    /\ b_indices' = <<>>
    /\ b_dec_in' = <<>>
    /\ b_decoded' = NAN
    /\ UNCHANGED bt

BinFrame == UNCHANGED <<cvars, tvars>>

BinNext ==
    \/ BinaryReturn /\ BinFrame
    \/ BinaryInit /\ BinFrame
    \/ BinaryFit /\ BinFrame
    \/ BinaryEncode /\ BinFrame
    \/ BinaryDecodeEncoded /\ BinFrame
    \/ BinaryDecode /\ BinFrame

(***************************************************************************)
(* CategoryTokenizer                                                       *)
(***************************************************************************)
MaxCatFit == 3

\* C strings of the model, as byte codes
S_empty == <<>>
S_b == <<98>>
S_blue == <<98, 108, 117, 101>>
S_gre == <<103, 114, 101>>
S_green == <<103, 114, 101, 101, 110>>
S_red == <<114, 101, 100>>
S_eacute == <<195, 169>>

S_not_fitted == <<95, 95, 110, 111, 116, 95, 102, 105, 116, 116, 101, 100, 95, 95>>
S_missing == <<95, 95, 109, 105, 115, 115, 105, 110, 103, 95, 95>>
S_unknown == <<95, 95, 117, 110, 107, 110, 111, 119, 110, 95, 95>>
S_invalid == <<95, 95, 105, 110, 118, 97, 108, 105, 100, 95, 95>>

\* a const char*: NULL or a pointer to a string
NULL == [null |-> TRUE, str |-> <<>>]
Ptr(s) == [null |-> FALSE, str |-> s]

\* strcmp: sign of the first differing byte (unsigned), 0 when equal
RECURSIVE strcmp_from(_, _, _)
strcmp_from(a, b, i) ==
    IF i > Len(a) /\ i > Len(b) THEN 0
    ELSE IF i > Len(a) THEN 0 - 1
    ELSE IF i > Len(b) THEN 1
    ELSE IF a[i] < b[i] THEN 0 - 1
    ELSE IF a[i] > b[i] THEN 1
    ELSE strcmp_from(a, b, i + 1)

strcmp(a, b) == strcmp_from(a, b, 1)

compare_strings(a, b) == strcmp(a, b)

\* qsort(unique, unique_count, sizeof(char*), compare_strings)
RECURSIVE qsort_insert(_, _)
qsort_insert(sorted, x) ==
    IF Len(sorted) = 0 THEN <<x>>
    ELSE IF compare_strings(x, Head(sorted)) <= 0 THEN <<x>> \o sorted
    ELSE <<Head(sorted)>> \o qsort_insert(Tail(sorted), x)


qsort_mut(a) == a

RECURSIVE qsort(_)
qsort(a) == IF Len(a) = 0 THEN <<>> ELSE qsort_insert(qsort(Tail(a)), Head(a))

category_init == [categories |-> <<>>, num_categories |-> 0, fitted |-> FALSE]

\* the dedup loop: values[i] is kept when no earlier kept string equals it

category_fit_unique_mut(values, i, unique) == values

RECURSIVE category_fit_unique(_, _, _)
category_fit_unique(values, i, unique) ==
    IF i > Len(values) THEN unique
    ELSE IF \E j \in 1..Len(unique) : strcmp(values[i], unique[j]) = 0
         THEN category_fit_unique(values, i + 1, unique)
         ELSE category_fit_unique(values, i + 1, Append(unique, values[i]))


category_fit_mut(t, values) ==
    IF Len(values) = 0 THEN category_init
    ELSE LET unique == qsort(category_fit_unique(values, 1, <<>>))
         IN  [categories |-> unique, num_categories |-> Len(unique), fitted |-> TRUE]

category_fit(t, values) ==
    IF Len(values) = 0 THEN [t EXCEPT !.fitted = FALSE]
    ELSE LET unique == qsort(category_fit_unique(values, 1, <<>>))
         IN  [categories |-> unique, num_categories |-> Len(unique), fitted |-> TRUE]

\* C integer division truncates toward zero
CDiv(a, b) ==
    IF (a >= 0) = (b > 0) THEN (IF a >= 0 THEN a \div b ELSE (0 - a) \div (0 - b))
    ELSE 0 - ((IF a >= 0 THEN a ELSE 0 - a) \div (IF b > 0 THEN b ELSE 0 - b))

\* categories is 0-based in the code, 1-based here

RECURSIVE category_encode_search_mut(_, _, _, _)
category_encode_search_mut(t, s, low, high) ==
    IF low > high THEN 1
    ELSE LET mid == low + CDiv(high - low, 2)
             cmp == strcmp(s, t.categories[mid + 1])
         IN  IF cmp = 0 THEN mid + 1
             ELSE IF cmp < 0 THEN category_encode_search_mut(t, s, low, mid - 1)
             ELSE category_encode_search_mut(t, s, mid + 1, high)

RECURSIVE category_encode_search(_, _, _, _)
category_encode_search(t, s, low, high) ==
    IF low > high THEN 1
    ELSE LET mid == low + CDiv(high - low, 2)
             cmp == strcmp(s, t.categories[mid + 1])
         IN  IF cmp = 0 THEN mid + 2
             ELSE IF cmp < 0 THEN category_encode_search(t, s, low, mid - 1)
             ELSE category_encode_search(t, s, mid + 1, high)


category_encode_unfitted_mut == 0 - 1

category_encode_unfitted == 0 - 2

category_encode_missing(value) == value.null \/ Len(value.str) = 0

category_encode(t, value) ==
    IF ~t.fitted THEN category_encode_unfitted
    ELSE IF category_encode_missing(value) THEN 0 - 1
    ELSE category_encode_search(t, value.str, 0, t.num_categories - 1)

category_decode_index(token) == token - 2


category_decode_mut(t, token) ==
    IF token = 0 THEN S_missing
    ELSE IF token = 1 THEN S_unknown
    ELSE IF token - 2 < 0 \/ token - 2 >= t.num_categories THEN S_invalid
    ELSE t.categories[category_decode_index(token) + 1]

category_decode(t, token) ==
    IF ~t.fitted THEN S_not_fitted
    ELSE IF token = 0 THEN S_missing
    ELSE IF token = 1 THEN S_unknown
    ELSE IF token - 2 < 0 \/ token - 2 >= t.num_categories THEN S_invalid
    ELSE t.categories[category_decode_index(token) + 1]

(***************************************************************************)
(* Inputs of the categorical model.                                        *)
(***************************************************************************)
FitStrings == {S_empty, S_b, S_blue, S_green, S_red, S_eacute}

EncodeStrings == {NULL} \cup {Ptr(s) : s \in FitStrings \cup {S_gre}}

DecodeTokens == (0 - 3)..(MaxCatFit + 3)

\* the heap block t->categories leads to: array is "null" while the pointer
\* is NULL, "live" while the block is allocated and "freed" once it was
\* passed to free (the pointer dangles); strings is the same for the strings
\* the block's first num_categories entries lead to.  double_free and
\* use_after_free record that a released block was released or read again.
category_init_mem(mem) == [mem EXCEPT !.array = "null", !.strings = "none"]

\* the release loop shared by category_fit and category_free:
\* if (t->categories) { for (i < num_categories) free(categories[i]);
\*                      free(categories); }
category_release_double(t, mem) ==
    /\ mem.array # "null"
    /\ \/ mem.array = "freed"
       \/ t.num_categories > 0 /\ mem.strings = "freed"

category_release_stale(t, mem) ==
    mem.array = "freed" /\ t.num_categories > 0

category_release(t, mem) ==
    IF mem.array = "null" THEN mem
    ELSE [array |-> "freed",
          strings |-> IF t.num_categories > 0 THEN "freed" ELSE mem.strings,
          double_free |-> mem.double_free \/ category_release_double(t, mem),
          use_after_free |-> mem.use_after_free \/ category_release_stale(t, mem)]

category_fit_double(t, values, mem) ==
    Len(values) > 0 /\ category_release_double(t, mem)

category_fit_mem(t, values, mem) ==
    IF Len(values) = 0 THEN mem
    ELSE [category_release(t, mem) EXCEPT !.array = "live", !.strings = "live"]

\* category_free leaves t->categories as it was: the pointer keeps the address
\* of the released block, whose contents can no longer be read
category_free(t) == [categories |-> <<>>, num_categories |-> 0, fitted |-> FALSE]

category_free_mem(t, mem) == category_release(t, mem)

\* releasing a released block is undefined: the allocator aborts the process
\* or the call carries on
HeapOutcomes(double) == IF double THEN {"abort", "continue"} ELSE {"continue"}

MemStart == [array |-> "null", strings |-> "none",
             double_free |-> FALSE, use_after_free |-> FALSE]

CatStart ==
    /\ ct = category_init
    /\ c_mem = MemStart
    /\ c_last = "init"
    /\ c_values = <<>>
    /\ c_value = NULL
    /\ c_token = 0
    /\ c_decoded = <<>>

CategoryInit ==
    /\ c_last \in Idle
    /\ ct' = category_init
    /\ c_mem' = category_init_mem(c_mem)
    /\ c_last' = "init"
    /\ c_values' = <<>>
    /\ c_value' = NULL
    /\ c_token' = 0
    /\ c_decoded' = <<>>

CategoryFit ==
    /\ c_last \in Idle
    /\ \E values \in SeqsUpTo(FitStrings, MaxCatFit) :
       \E outcome \in HeapOutcomes(category_fit_double(ct, values, c_mem)) :
          /\ c_values' = values
          /\ IF outcome = "abort"
             THEN /\ c_mem' = category_release(ct, c_mem)
                  /\ ct' = ct
                  /\ c_last' = "abort"
             ELSE /\ c_mem' = category_fit_mem(ct, values, c_mem)
                  /\ ct' = category_fit(ct, values)
                  /\ c_last' = "fit"
    /\ c_value' = NULL
    /\ c_token' = 0
    /\ c_decoded' = <<>>

CategoryEncode ==
    /\ c_last \in Idle
    /\ \E value \in EncodeStrings :
          /\ c_value' = value
          /\ c_token' = category_encode(ct, value)
    /\ c_last' = "encode"
    /\ c_values' = <<>>
    /\ c_decoded' = <<>>
    /\ UNCHANGED <<ct, c_mem>>

\* decode of the token the preceding encode returned
CategoryDecodeEncoded ==
    /\ c_last = "encode"
    /\ c_last' = "roundtrip"
    /\ c_decoded' = category_decode(ct, c_token)
    /\ UNCHANGED <<ct, c_mem, c_values, c_value, c_token>>

CategoryDecode ==
    /\ c_last \in Idle
    /\ \E token \in DecodeTokens :
          /\ c_token' = token
          /\ c_decoded' = category_decode(ct, token)
    /\ c_last' = "decode"
    /\ c_values' = <<>>
    /\ c_value' = NULL
    /\ UNCHANGED <<ct, c_mem>>

CategoryFree ==
    /\ c_last \in Idle
    /\ \E outcome \in HeapOutcomes(category_release_double(ct, c_mem)) :
          /\ c_mem' = category_free_mem(ct, c_mem)
          /\ IF outcome = "abort"
             THEN ct' = ct /\ c_last' = "abort"
             ELSE ct' = category_free(ct) /\ c_last' = "free"
    /\ c_values' = <<>>
    /\ c_value' = NULL
    /\ c_token' = 0
    /\ c_decoded' = <<>>

\* an aborted process makes no further call
CategoryReturn ==
    /\ c_last \notin Idle \cup {"abort"}
    /\ c_last' = "idle"
    /\ c_values' = <<>>
    /\ c_value' = NULL
    /\ c_token' = 0
    /\ c_decoded' = <<>>
    /\ UNCHANGED <<ct, c_mem>>

CatFrame == UNCHANGED <<bvars, tvars>>

CatNext ==
    \/ CategoryReturn /\ CatFrame
    \/ CategoryInit /\ CatFrame
    \/ CategoryFit /\ CatFrame
    \/ CategoryFree /\ CatFrame
    \/ CategoryEncode /\ CatFrame
    \/ CategoryDecodeEncoded /\ CatFrame
    \/ CategoryDecode /\ CatFrame

(***************************************************************************)
(* TimestampTokenizer: scanning and formatting of C strings                *)
(***************************************************************************)
isspace(c) == c \in {32, 9, 10, 11, 12, 13}
isdigit(c) == c \in 48..57

RECURSIVE SkipSpace(_, _)
SkipSpace(s, p) ==
    IF p <= Len(s) /\ isspace(s[p]) THEN SkipSpace(s, p + 1) ELSE p

\* at most w decimal digits from position p: value, next position, digits read
RECURSIVE ScanDigits(_, _, _, _, _)
ScanDigits(s, p, w, acc, n) ==
    IF w > 0 /\ p <= Len(s) /\ isdigit(s[p])
    THEN ScanDigits(s, p + 1, w - 1, acc * 10 + (s[p] - 48), n + 1)
    ELSE [val |-> acc, pos |-> p, n |-> n]

\* the conversion %<w>d of sscanf: white space, an optional sign that counts
\* in the width, then at least one digit
ScanResult(q, neg, r) ==
    IF r.n = 0 THEN [ok |-> FALSE, val |-> 0, pos |-> q]
    ELSE [ok |-> TRUE, val |-> IF neg THEN 0 - r.val ELSE r.val, pos |-> r.pos]

ScanSigned(s, q, w) ==
    IF w > 0 /\ q <= Len(s) /\ s[q] \in {43, 45}
    THEN ScanResult(q, s[q] = 45, ScanDigits(s, q + 1, w - 1, 0, 0))
    ELSE ScanResult(q, FALSE, ScanDigits(s, q, w, 0, 0))

ScanInt(s, p, w) == ScanSigned(s, SkipSpace(s, p), w)

\* the conversion %f followed by (int): white space, sign, digits with an
\* optional fraction; the fraction is truncated.  The strings of the model
\* hold no exponent, "inf" or "nan".
ScanFloatResult(q, neg, r, f) ==
    IF r.n + f.n = 0 THEN [ok |-> FALSE, val |-> 0, pos |-> q]
    ELSE [ok |-> TRUE, val |-> IF neg THEN 0 - r.val ELSE r.val, pos |-> f.pos]

ScanFloatFrac(s, q, neg, r) ==
    IF r.pos <= Len(s) /\ s[r.pos] = 46
    THEN ScanFloatResult(q, neg, r, ScanDigits(s, r.pos + 1, Len(s), 0, 0))
    ELSE ScanFloatResult(q, neg, r, [val |-> 0, pos |-> r.pos, n |-> 0])

ScanFloatSigned(s, q) ==
    IF q <= Len(s) /\ s[q] \in {43, 45}
    THEN ScanFloatFrac(s, q, s[q] = 45, ScanDigits(s, q + 1, Len(s), 0, 0))
    ELSE ScanFloatFrac(s, q, FALSE, ScanDigits(s, q, Len(s), 0, 0))

ScanFloatTrunc(s, p) == ScanFloatSigned(s, SkipSpace(s, p))

MatchChar(s, p, c) == p <= Len(s) /\ s[p] = c

\* sscanf(s + p, "%<w1>d<c>%<w>d<c>%<w>d" or with a last "%f"): the number of
\* conversions assigned, their values and the position after the last one
sscanf3_third(r1, r2, r3) ==
    IF ~r3.ok THEN [n |-> 2, v |-> <<r1.val, r2.val, 0>>, pos |-> r2.pos]
    ELSE [n |-> 3, v |-> <<r1.val, r2.val, r3.val>>, pos |-> r3.pos]

sscanf3_second(s, w, c, float, r1, r2) ==
    IF ~r2.ok THEN [n |-> 1, v |-> <<r1.val, 0, 0>>, pos |-> r1.pos]
    ELSE IF ~MatchChar(s, r2.pos, c)
         THEN [n |-> 2, v |-> <<r1.val, r2.val, 0>>, pos |-> r2.pos]
    ELSE IF float THEN sscanf3_third(r1, r2, ScanFloatTrunc(s, r2.pos + 1))
    ELSE sscanf3_third(r1, r2, ScanInt(s, r2.pos + 1, w))

sscanf3_first(s, p, w, c, float, r1) ==
    IF ~r1.ok THEN [n |-> 0, v |-> <<0, 0, 0>>, pos |-> p]
    ELSE IF ~MatchChar(s, r1.pos, c)
         THEN [n |-> 1, v |-> <<r1.val, 0, 0>>, pos |-> r1.pos]
    ELSE sscanf3_second(s, w, c, float, r1, ScanInt(s, r1.pos + 1, w))

sscanf3(s, p, w1, w, c, float) == sscanf3_first(s, p, w, c, float, ScanInt(s, p, w1))

\* strchr: position of the first c in s, 0 when there is none
RECURSIVE strchr_from(_, _, _)
strchr_from(s, c, p) ==
    IF p > Len(s) THEN 0 ELSE IF s[p] = c THEN p ELSE strchr_from(s, c, p + 1)

strchr(s, c) == strchr_from(s, c, 1)

RECURSIVE Digits(_)
Digits(n) == IF n < 10 THEN <<48 + n>> ELSE Digits(n \div 10) \o <<48 + (n % 10)>>

RECURSIVE ZeroPad(_, _)
ZeroPad(s, w) == IF Len(s) >= w THEN s ELSE ZeroPad(<<48>> \o s, w)

\* the conversion %0<w>d of snprintf
FmtD(n, w) == IF n >= 0 THEN ZeroPad(Digits(n), w)
              ELSE <<45>> \o ZeroPad(Digits(0 - n), w - 1)

\* snprintf(output, 64, "%04d-%02d-%02dT%02d:%02d:%02d", ...)
snprintf_iso(year, mon, mday, hour, min, sec) ==
    FmtD(year, 4) \o <<45>> \o FmtD(mon, 2) \o <<45>> \o FmtD(mday, 2) \o <<84>>
        \o FmtD(hour, 2) \o <<58>> \o FmtD(min, 2) \o <<58>> \o FmtD(sec, 2)

TmZero == [tm_year |-> 0, tm_mon |-> 0, tm_mday |-> 0,
           tm_hour |-> 0, tm_min |-> 0, tm_sec |-> 0]

(***************************************************************************)
(* TimestampTokenizer, variant with the offset parameter                   *)
(***************************************************************************)
timestamp_init(min_year, max_year, offset) ==
    [min_year |-> min_year, max_year |-> max_year, fitted |-> TRUE, offset |-> offset]

timestamp_parse_range(t, tm) ==
    ~(\/ tm.tm_year < t.min_year \/ tm.tm_year > t.max_year
      \/ tm.tm_mon < 1 \/ tm.tm_mon > 12
      \/ tm.tm_mday < 1 \/ tm.tm_mday > 31
      \/ tm.tm_hour < 0 \/ tm.tm_hour > 23
      \/ tm.tm_min < 0 \/ tm.tm_min > 59
      \/ tm.tm_sec < 0 \/ tm.tm_sec > 60)

MkTm(date, time) ==
    [tm_year |-> date.v[1], tm_mon |-> date.v[2], tm_mday |-> date.v[3],
     tm_hour |-> time.v[1], tm_min |-> time.v[2], tm_sec |-> time.v[3]]

ParseFailed == [ok |-> FALSE, tm |-> TmZero]

timestamp_parse_validate(t, tm) ==
    IF ~timestamp_parse_range(t, tm) THEN [ok |-> FALSE, tm |-> tm]
    ELSE [ok |-> TRUE, tm |-> tm]

\* the second attempt, with fractional seconds
timestamp_parse_fraction(t, date, time) ==
    IF time.n = 3 THEN timestamp_parse_validate(t, MkTm(date, time)) ELSE ParseFailed

timestamp_parse_time(t, s, separator, date, time) ==
    IF time.n = 3 THEN timestamp_parse_validate(t, MkTm(date, time))
    ELSE timestamp_parse_fraction(t, date, sscanf3(s, separator + 1, 2, 2, 58, TRUE))

timestamp_parse_date(t, s, separator, date) ==
    IF date.n # 3 THEN ParseFailed
    ELSE timestamp_parse_time(t, s, separator, date,
                              sscanf3(s, separator + 1, 2, 2, 58, FALSE))

\* separator: position of the 'T' or else of the first space, 0 when none
timestamp_parse_at(t, s, separator) ==
    IF separator = 0 THEN ParseFailed
    ELSE IF separator - 1 # 10 THEN ParseFailed
    ELSE timestamp_parse_date(t, s, separator, sscanf3(s, 1, 4, 2, 45, FALSE))

timestamp_parse_separator(s, sepT) == IF sepT # 0 THEN sepT ELSE strchr(s, 32)

timestamp_parse(t, iso) ==
    IF iso.null THEN ParseFailed
    ELSE timestamp_parse_at(t, iso.str, timestamp_parse_separator(iso.str, strchr(iso.str, 84)))

\* tokens[i] = tokens[i-1] + field: running sums from the year token on
RECURSIVE RunningSum(_, _)
RunningSum(first, rest) ==
    IF Len(rest) = 0 THEN <<first>>
    ELSE <<first>> \o RunningSum(first + Head(rest), Tail(rest))

timestamp_encode_tokens(t, p) ==
    IF ~p.ok THEN [tokens |-> [i \in 1..6 |-> 0 + t.offset], count |-> 6]
    ELSE [tokens |-> RunningSum(1 + (p.tm.tm_year - t.min_year) + t.offset,
                                << p.tm.tm_mon - 1, p.tm.tm_mday, p.tm.tm_hour,
                                   p.tm.tm_min, p.tm.tm_sec >>),
          count |-> 6]

timestamp_encode(t, iso) == timestamp_encode_tokens(t, timestamp_parse(t, iso))

\* the loop ok = ok * tokens[i] / tokens[i-1]; tokens is 1-based here.  A zero
\* divisor is undefined: the division traps or yields divzero.q
RECURSIVE timestamp_decode_loop_mut(_, _, _, _)
timestamp_decode_loop_mut(tokens, i, ok, divzero) ==
    IF i >= 6 THEN (IF ok > 0 THEN "valid" ELSE "invalid")
    ELSE IF tokens[i] = 0
         THEN (IF divzero.trap THEN "trap"
               ELSE timestamp_decode_loop_mut(tokens, i + 1, divzero.q, divzero))
         ELSE timestamp_decode_loop_mut(tokens, i + 1,
                                        CDiv(ok * tokens[i + 1], tokens[i]), divzero)

RECURSIVE timestamp_decode_loop(_, _, _, _)
timestamp_decode_loop(tokens, i, ok, divzero) ==
    IF i >= 6 THEN "valid"
    ELSE IF ok <= 0 THEN "invalid"
    ELSE IF i = 5 THEN
         (IF tokens[i] = 0
          THEN (IF divzero.trap THEN "trap"
                ELSE IF divzero.q > 0 THEN "valid" ELSE "invalid")
          ELSE IF CDiv(ok * tokens[i + 1], tokens[i]) > 0 THEN "valid" ELSE "invalid")
    ELSE IF tokens[i] = 0
         THEN (IF divzero.trap THEN "trap"
               ELSE timestamp_decode_loop(tokens, i + 1, divzero.q, divzero))
         ELSE timestamp_decode_loop(tokens, i + 1,
                                    CDiv(ok * tokens[i + 1], tokens[i]), divzero)

timestamp_decode_valid(t, tokens, divzero) ==
    timestamp_decode_loop(tokens, 1, tokens[1] - t.offset, divzero)

timestamp_decode_output(t, tokens, valid) ==
    IF valid = "trap" THEN [trap |-> TRUE, output |-> <<>>]
    ELSE IF valid = "valid"
    THEN [trap |-> FALSE,
          output |-> snprintf_iso(tokens[1] - (1 - t.min_year + t.offset),
                                  (tokens[2] - tokens[1]) + 1,
                                  tokens[3] - tokens[2],
                                  tokens[4] - tokens[3],
                                  tokens[5] - tokens[4],
                                  tokens[6] - tokens[5])]
    ELSE [trap |-> FALSE, output |-> S_invalid]

\* how many leading ints of tokens the function reads: tokens[0] for ok, then
\* tokens[i] and tokens[i-1] in each iteration entered, all six when valid
RECURSIVE timestamp_decode_extent(_, _, _, _)
timestamp_decode_extent(tokens, i, ok, divzero) ==
    IF i >= 6 THEN 6
    ELSE IF ok <= 0 THEN i
    ELSE IF tokens[i] = 0
         THEN (IF divzero.trap THEN i + 1
               ELSE timestamp_decode_extent(tokens, i + 1, divzero.q, divzero))
         ELSE timestamp_decode_extent(tokens, i + 1,
                                      CDiv(ok * tokens[i + 1], tokens[i]), divzero)

\* tokens is the memory at the pointer, six ints whatever count says
timestamp_decode(t, tokens, count, divzero) ==
    timestamp_decode_output(t, tokens, timestamp_decode_valid(t, tokens, divzero))

(***************************************************************************)
(* TimestampTokenizer, variant with fixed buckets                          *)
(***************************************************************************)
timestamp_init_fixed(min_year, max_year) ==
    [min_year |-> min_year, max_year |-> max_year, fitted |-> TRUE]

\* sscanf(iso, "%d-%d-%dT%d:%d:%d", ...) == 6
timestamp_parse_fixed_time(date, time) ==
    IF time.n = 3 THEN [ok |-> TRUE, tm |-> MkTm(date, time)] ELSE ParseFailed

timestamp_parse_fixed_date(s, date) ==
    IF date.n = 3 /\ MatchChar(s, date.pos, 84)
    THEN timestamp_parse_fixed_time(
             date, sscanf3(s, date.pos + 1, Len(s) + 1, Len(s) + 1, 58, FALSE))
    ELSE ParseFailed

timestamp_parse_fixed(iso) ==
    timestamp_parse_fixed_date(iso.str,
        sscanf3(iso.str, 1, Len(iso.str) + 1, Len(iso.str) + 1, 45, FALSE))

timestamp_encode_fixed_year(t, tm) ==
    IF tm.tm_year < t.min_year THEN 0
    ELSE IF tm.tm_year > t.max_year THEN 1
    ELSE 2 + (tm.tm_year - t.min_year)

\* uninit is the value the caller's tokens[5] held before the call
timestamp_encode_fixed_tokens(t, p, uninit) ==
    IF ~p.ok
    THEN [tokens |-> <<0, 0 + 15, 15 + 31, 46 + 24, 70 + 60, uninit + 60>>, count |-> 6]
    ELSE [tokens |->
             << timestamp_encode_fixed_year(t, p.tm),
                IF p.tm.tm_mon < 1 \/ p.tm.tm_mon > 12 THEN 3 + 12 + 0
                ELSE 3 + (p.tm.tm_mon - 1),
                IF p.tm.tm_mday < 1 \/ p.tm.tm_mday > 31 THEN 3 + 12 + 31 + 0
                ELSE 3 + 12 + (p.tm.tm_mday - 1),
                IF p.tm.tm_hour < 0 \/ p.tm.tm_hour >= 24 THEN 3 + 12 + 31 + 24 + 0
                ELSE 3 + 12 + 31 + p.tm.tm_hour,
                IF p.tm.tm_min < 0 \/ p.tm.tm_min >= 60 THEN 3 + 12 + 31 + 24 + 60 + 0
                ELSE 3 + 12 + 31 + 24 + p.tm.tm_min,
                IF p.tm.tm_sec < 0 \/ p.tm.tm_sec >= 60 THEN 3 + 12 + 31 + 24 + 60 + 60 + 0
                ELSE 3 + 12 + 31 + 24 + 60 + p.tm.tm_sec >>,
          count |-> 6]

timestamp_encode_fixed(t, iso, uninit) ==
    timestamp_encode_fixed_tokens(t, timestamp_parse_fixed(iso), uninit)

\* the fixed-bucket variant reads no token unless count is 6
timestamp_decode_extent_fixed(count) == IF count # 6 THEN 0 ELSE 6

timestamp_decode_fixed(t, tokens, count) ==
    LET valid == /\ count = 6
                 /\ tokens[1] # 0 /\ tokens[1] # 1
                 /\ tokens[2] # 15
                 /\ tokens[3] # 46
                 /\ tokens[4] # 70
                 /\ tokens[5] # 130
                 /\ tokens[6] # 190
    IN  IF valid
        THEN snprintf_iso(t.min_year + (tokens[1] - 2),
                          (tokens[2] - 3) + 1,
                          (tokens[3] - 15) + 1,
                          tokens[4] - 46,
                          tokens[5] - 70,
                          tokens[6] - 130)
        ELSE S_invalid

(***************************************************************************)
(* Inputs of the timestamp model.                                          *)
(***************************************************************************)
MaxSpan == 2
MaxOffset == 2

\* default min_year of the constructor
BaseYear == 2000

YearRanges ==
    {<<lo, hi>> \in (BaseYear..(BaseYear + MaxSpan - 1)) \X (BaseYear..(BaseYear + MaxSpan - 1)) :
        lo <= hi}

Offsets == (0 - MaxOffset)..MaxOffset

Iso(y, mo, d, h, mi, sec, sep) ==
    FmtD(y, 4) \o <<45>> \o FmtD(mo, 2) \o <<45>> \o FmtD(d, 2) \o <<sep>>
        \o FmtD(h, 2) \o <<58>> \o FmtD(mi, 2) \o <<58>> \o FmtD(sec, 2)

\* zero-padded timestamps at the ends of every component's range
GridIso ==
    {Iso(y, mo, d, h, mi, sec, 84) :
        y \in (BaseYear - 1)..(BaseYear + MaxSpan), mo \in {1, 12}, d \in {1, 31},
        h \in {0, 23}, mi \in {0, 59}, sec \in {0, 59, 60}}

\* one component just outside its range
OffIso ==
    {Iso(BaseYear, mo, 1, 0, 0, 0, 84) : mo \in {0, 13}}
    \cup {Iso(BaseYear, 1, d, 0, 0, 0, 84) : d \in {0, 32}}
    \cup {Iso(BaseYear, 1, 1, 24, 0, 0, 84), Iso(BaseYear, 1, 1, 0, 60, 0, 84),
          Iso(BaseYear, 12, 31, 23, 59, 61, 84), Iso(BaseYear, 2, 30, 0, 0, 0, 84),
          Iso(BaseYear, 13, 32, 0, 0, 0, 84)}

S_not_a_date == <<110, 111, 116, 45, 97, 45, 100, 97, 116, 101>>

\* other shapes: space separator, fraction, unpadded fields, missing parts
OddIso ==
    { Iso(BaseYear, 12, 31, 23, 59, 58, 32),
      Iso(BaseYear, 12, 31, 23, 59, 58, 84) \o <<46, 55, 53>>,
      Iso(BaseYear, 1, 1, 0, 0, 0, 84) \o <<90>>,
      FmtD(BaseYear, 4) \o <<45, 49, 45, 49, 84, 48, 48, 58, 48, 48, 58, 48, 48>>,
      FmtD(BaseYear, 4) \o <<45, 49, 45, 49, 120, 120, 84, 48, 58, 48, 58, 48>>,
      FmtD(BaseYear, 4) \o <<45, 48, 49, 45, 48, 49, 84, 48, 48, 58, 48, 48, 58, 46, 53>>,
      FmtD(BaseYear, 4) \o <<45, 48, 49, 45, 48, 49, 84, 48, 48, 58, 48, 48>>,
      FmtD(BaseYear, 4) \o <<45, 48, 49, 45, 48, 49, 84>>,
      FmtD(BaseYear, 4) \o <<45, 48, 49, 45, 48, 49>>,
      S_not_a_date,
      <<>> }

IsoInputs == {Ptr(s) : s \in GridIso \cup OffIso \cup OddIso}

\* what an uninitialised int of the caller may hold
UninitInts == {0 - 60, 0, 130}

\* what a division by zero may do: trap, or yield 0
DivZero == {[trap |-> TRUE, q |-> 0], [trap |-> FALSE, q |-> 0]}

PerturbTokens == {0 - 1, 0, 1, 15, 46, 70, 130, 190}

DecodeBases(build, t) ==
    IF build = "offset"
    THEN {timestamp_encode(t, Ptr(Iso(t.min_year, 1, 1, 0, 0, 0, 84))).tokens,
          timestamp_encode(t, Ptr(Iso(t.max_year, 12, 31, 23, 59, 59, 84))).tokens}
    ELSE {timestamp_encode_fixed(t, Ptr(Iso(t.min_year, 1, 1, 0, 0, 0, 84)), 0).tokens,
          timestamp_encode_fixed(t, Ptr(Iso(t.max_year, 12, 31, 23, 59, 59, 84)), 0).tokens}

DecodeTokenInputs(build, t) ==
    {[b EXCEPT ![i] = v] :
        b \in DecodeBases(build, t), i \in 1..6, v \in PerturbTokens \cup Offsets}

\* the length the caller passes: one short, exact, one long.  The model keeps
\* the six ints at the pointer; with a count of 5 the sixth lies past the
\* caller's array and holds whatever the memory there holds.
DecodeCounts == {5, 6, 7}

TsStart ==
    /\ t_build \in {"offset", "fixed"}
    /\ tt = IF t_build = "offset"
            THEN timestamp_init(BaseYear, BaseYear + MaxSpan - 1, 0)
            ELSE timestamp_init_fixed(BaseYear, BaseYear + MaxSpan - 1)
    /\ t_last = "init"
    /\ t_iso = NULL
    /\ t_tokens = <<>>
    /\ t_count = 0
    /\ t_output = <<>>

TsReset ==
    /\ t_iso' = NULL
    /\ t_tokens' = <<>>
    /\ t_count' = 0
    /\ t_output' = <<>>

TimestampInit ==
    /\ t_last \in Idle
    /\ t_build = "offset"
    /\ \E yr \in YearRanges, offset \in Offsets : tt' = timestamp_init(yr[1], yr[2], offset)
    /\ t_last' = "init"
    /\ TsReset
    /\ UNCHANGED t_build

TimestampInitFixed ==
    /\ t_last \in Idle
    /\ t_build = "fixed"
    /\ \E yr \in YearRanges : tt' = timestamp_init_fixed(yr[1], yr[2])
    /\ t_last' = "init"
    /\ TsReset
    /\ UNCHANGED t_build

TimestampEncode ==
    /\ t_last \in Idle
    /\ t_build = "offset"
    /\ \E iso \in IsoInputs \cup {NULL} :
          LET r == timestamp_encode(tt, iso)
          IN  /\ t_iso' = iso
              /\ t_tokens' = r.tokens
              /\ t_count' = r.count
    /\ t_last' = "encode"
    /\ t_output' = <<>>
    /\ UNCHANGED <<tt, t_build>>

TimestampEncodeFixed ==
    /\ t_last \in Idle
    /\ t_build = "fixed"
    /\ \E iso \in IsoInputs, uninit \in UninitInts :
          LET r == timestamp_encode_fixed(tt, iso, uninit)
          IN  /\ t_iso' = iso
              /\ t_tokens' = r.tokens
              /\ t_count' = r.count
    /\ t_last' = "encode"
    /\ t_output' = <<>>
    /\ UNCHANGED <<tt, t_build>>

\* decode of the tokens the preceding encode returned
TimestampDecodeEncoded ==
    /\ t_build = "offset"
    /\ t_last = "encode"
    /\ \E divzero \in DivZero :
          LET r == timestamp_decode(tt, t_tokens, t_count, divzero)
          IN  /\ t_last' = IF r.trap THEN "roundtrip_trap" ELSE "roundtrip"
              /\ t_output' = r.output
    /\ UNCHANGED <<tt, t_build, t_iso, t_tokens, t_count>>

TimestampDecodeEncodedFixed ==
    /\ t_build = "fixed"
    /\ t_last = "encode"
    /\ t_last' = "roundtrip"
    /\ t_output' = timestamp_decode_fixed(tt, t_tokens, t_count)
    /\ UNCHANGED <<tt, t_build, t_iso, t_tokens, t_count>>

TimestampDecode ==
    /\ t_last \in Idle
    /\ t_build = "offset"
    /\ \E tokens \in DecodeTokenInputs(t_build, tt), count \in DecodeCounts, divzero \in DivZero :
          LET r == timestamp_decode(tt, tokens, count, divzero)
          IN  /\ t_tokens' = tokens
              /\ t_count' = count
              /\ t_last' = IF r.trap THEN "decode_trap" ELSE "decode"
              /\ t_output' = r.output
    /\ t_iso' = NULL
    /\ UNCHANGED <<tt, t_build>>

TimestampDecodeFixed ==
    /\ t_last \in Idle
    /\ t_build = "fixed"
    /\ \E tokens \in DecodeTokenInputs(t_build, tt), count \in DecodeCounts :
          /\ t_tokens' = tokens
          /\ t_count' = count
          /\ t_output' = timestamp_decode_fixed(tt, tokens, count)
    /\ t_last' = "decode"
    /\ t_iso' = NULL
    /\ UNCHANGED <<tt, t_build>>

TimestampReturn ==
    /\ t_last \notin Idle
    /\ t_last' = "idle"
    /\ TsReset
    /\ UNCHANGED <<tt, t_build>>

TsFrame == UNCHANGED <<bvars, cvars>>

TsNext ==
    \/ TimestampReturn /\ TsFrame
    \/ TimestampInit /\ TsFrame
    \/ TimestampInitFixed /\ TsFrame
    \/ TimestampEncode /\ TsFrame
    \/ TimestampEncodeFixed /\ TsFrame
    \/ TimestampDecodeEncoded /\ TsFrame
    \/ TimestampDecodeEncodedFixed /\ TsFrame
    \/ TimestampDecode /\ TsFrame
    \/ TimestampDecodeFixed /\ TsFrame

(***************************************************************************)
(* Specifications: one per tokenizer; the tokenizers share no state.       *)
(***************************************************************************)
TsIdle ==
    /\ t_build = "offset"
    /\ tt = timestamp_init(BaseYear, BaseYear + MaxSpan - 1, 0)
    /\ t_last = "init"
    /\ t_iso = NULL
    /\ t_tokens = <<>>
    /\ t_count = 0
    /\ t_output = <<>>

BinInit == BinStart /\ CatStart /\ TsIdle
SpecBin == BinInit /\ [][BinNext]_vars

CatInit == BinStart /\ CatStart /\ TsIdle
SpecCat == CatInit /\ [][CatNext]_vars

TsInit == BinStart /\ CatStart /\ TsStart
SpecTs == TsInit /\ [][TsNext]_vars

\* The module exports the three types side by side.  They share no state, so
\* the order in which a program interleaves calls on different objects does not
\* matter: SpecAll lets one tokenizer work while the other two rest in their
\* constructed state.
BinAlone == CatStart /\ TsStart /\ BinFrame
CatAlone == BinStart /\ TsStart /\ CatFrame
TsAlone == BinStart /\ CatStart /\ TsFrame

AllNext ==
    \/ BinAlone /\ BinaryReturn
    \/ BinAlone /\ BinaryInit
    \/ BinAlone /\ BinaryFit
    \/ BinAlone /\ BinaryEncode
    \/ BinAlone /\ BinaryDecodeEncoded
    \/ BinAlone /\ BinaryDecode
    \/ CatAlone /\ CategoryReturn
    \/ CatAlone /\ CategoryInit
    \/ CatAlone /\ CategoryFit
    \/ CatAlone /\ CategoryFree
    \/ CatAlone /\ CategoryEncode
    \/ CatAlone /\ CategoryDecodeEncoded
    \/ CatAlone /\ CategoryDecode
    \/ TsAlone /\ TimestampReturn
    \/ TsAlone /\ TimestampInit
    \/ TsAlone /\ TimestampInitFixed
    \/ TsAlone /\ TimestampEncode
    \/ TsAlone /\ TimestampEncodeFixed
    \/ TsAlone /\ TimestampDecodeEncoded
    \/ TsAlone /\ TimestampDecodeEncodedFixed
    \/ TsAlone /\ TimestampDecode
    \/ TsAlone /\ TimestampDecodeFixed

AllInit == BinStart /\ CatStart /\ TsStart
SpecAll == AllInit /\ [][AllNext]_vars

(***************************************************************************)
(* Properties                                                              *)
(***************************************************************************)
Pow2(n) == 2 ^ n

Abs(x) == IF x < 0 THEN 0 - x ELSE x

BinEncoded == b_last \in {"encode", "roundtrip"}

\* C1: numeric round trip.  For a fitted tokenizer with min <= max and
\* num_bits >= 1 and a value v in [min, max], decoding the indices that
\* binary_encode(v) returned gives a number d with
\* |d - v| <= (max - min) / 2^num_bits.
C1_NumericRoundTrip ==
    (/\ b_last = "roundtrip"
     /\ bt.fitted
     /\ bt.num_bits >= 1
     /\ bt.min_val.k = "num" /\ bt.max_val.k = "num" /\ b_value.k = "num"
     /\ bt.min_val.v <= b_value.v /\ b_value.v <= bt.max_val.v)
    => /\ b_decoded.k = "num"
       /\ Abs(b_decoded.v - b_value.v) * Pow2(bt.num_bits) <= bt.max_val.v - bt.min_val.v

\* C5: on a fitted tokenizer binary_encode returns the empty sequence for
\* every value that is below min, above max, NaN or infinite.
C5_OutOfDomainEmpty ==
    (/\ BinEncoded
     /\ bt.fitted
     /\ \/ isnan(b_value)
        \/ b_value.k = "inf"
        \/ DLt(b_value, bt.min_val)
        \/ DGt(b_value, bt.max_val))
    => b_indices = <<>>

\* C5 witness: a finite value above a finite max, and an infinite value that
\* passes the range test because the fit saw an infinity, were both encoded.
C5_Witness ==
    /\ b_last = "encode"
    /\ bt.fitted
    /\ bt.num_bits >= 2
    /\ b_indices = <<>>
    /\ \/ b_value.k = "num" /\ bt.max_val.k = "num" /\ b_value.v > bt.max_val.v
       \/ b_value.k = "inf" /\ bt.max_val = b_value

Vocab(t) == {t.categories[i] : i \in 1..t.num_categories}

CatEncoded == c_last \in {"encode", "roundtrip"}

\* C2: categorical round trip.  After a non-empty fit, for every string s of
\* the vocabulary, category_decode(category_encode(s)) = s.
C2_CategoryRoundTrip ==
    (/\ c_last = "roundtrip"
     /\ ct.fitted
     /\ ~c_value.null
     /\ c_value.str \in Vocab(ct))
    => c_decoded = c_value.str

\* C2 as amended: after a non-empty fit, for every non-empty string s of the
\* vocabulary, category_decode(category_encode(s)) = s.
C2_CategoryRoundTripNonEmpty ==
    (/\ c_last = "roundtrip"
     /\ ct.fitted
     /\ ~c_value.null
     /\ Len(c_value.str) > 0
     /\ c_value.str \in Vocab(ct))
    => c_decoded = c_value.str

\* C2 witness: a string of a three-word vocabulary went through encode and decode.
C2_Witness ==
    /\ c_last = "roundtrip"
    /\ ct.fitted
    /\ ct.num_categories = 3
    /\ ~c_value.null
    /\ Len(c_value.str) > 0
    /\ c_value.str = ct.categories[3]
    /\ c_decoded = c_value.str

\* C6: on a fitted tokenizer category_encode returns 0 for a null or empty value.
C6_MissingIsZero ==
    (/\ CatEncoded
     /\ ct.fitted
     /\ (c_value.null \/ Len(c_value.str) = 0))
    => c_token = 0

\* C7: on a fitted tokenizer and a non-empty string s, category_encode(s) is
\* i + 2 when s is the i-th word (from 0) of the vocabulary and 1 when s is
\* not in the vocabulary.
C7_EncodeIsIndexPlus2 ==
    (/\ CatEncoded
     /\ ct.fitted
     /\ ~c_value.null
     /\ Len(c_value.str) > 0)
    => /\ \A i \in 1..ct.num_categories :
             ct.categories[i] = c_value.str => c_token = (i - 1) + 2
       /\ c_value.str \notin Vocab(ct) => c_token = 1

\* C7 witness: after fitting red, green, blue the word green was encoded as 3.
C7_Witness ==
    /\ c_last = "encode"
    /\ ct.fitted
    /\ ct.categories = <<S_blue, S_green, S_red>>
    /\ c_value = Ptr(S_green)
    /\ c_token = 3

\* C8: on an unfitted tokenizer category_encode returns the unknown token 1
\* for every non-empty string.
C8_UnfittedIsUnknown ==
    (/\ CatEncoded
     /\ ~ct.fitted
     /\ ~c_value.null
     /\ Len(c_value.str) > 0)
    => c_token = 1

\* C8 as amended: on an unfitted tokenizer category_encode returns the
\* not-fitted token -2 for every non-empty string.
C8_UnfittedIsMinus2 ==
    (/\ CatEncoded
     /\ ~ct.fitted
     /\ ~c_value.null
     /\ Len(c_value.str) > 0)
    => c_token = 0 - 2

\* C8 witness: a tokenizer left unfitted by an empty fit encoded a word of the
\* vocabulary it still holds.
C8_Witness ==
    /\ c_last = "encode"
    /\ ~ct.fitted
    /\ ct.num_categories > 0
    /\ ~c_value.null
    /\ Len(c_value.str) > 0
    /\ c_value.str \in Vocab(ct)
    /\ c_token = 0 - 2

\* C9: category_decode returns "__missing__" for 0, "__unknown__" for 1, the
\* word V[token - 2] for 2 <= token <= |V| + 1 and "__invalid__" for any other
\* token; on an unfitted tokenizer it returns "__not_fitted__", never a word.
C9_DecodeTable ==
    (c_last \in {"decode", "roundtrip"})
    => IF ~ct.fitted THEN c_decoded = S_not_fitted
       ELSE /\ c_token = 0 => c_decoded = S_missing
            /\ c_token = 1 => c_decoded = S_unknown
            /\ (2 <= c_token /\ c_token <= ct.num_categories + 1)
                  => c_decoded = ct.categories[(c_token - 2) + 1]
            /\ (c_token < 0 \/ c_token - 2 >= ct.num_categories)
                  => c_decoded = S_invalid

\* C9 witness: the last word of a vocabulary was decoded, and a token of a
\* vocabulary was decoded after an empty fit left the tokenizer unfitted.
C9_Witness ==
    /\ c_last = "decode"
    /\ ct.num_categories >= 2
    /\ c_token = ct.num_categories + 1
    /\ \/ ct.fitted /\ c_decoded = ct.categories[ct.num_categories]
       \/ ~ct.fitted /\ c_decoded = S_not_fitted

\* bucket widths and bases of the claimed layout: year, month, day, hour,
\* minute, second
BucketWidth(t) == <<t.max_year - t.min_year + 1, 12, 31, 24, 60, 60>>

RECURSIVE BucketBase(_, _)
BucketBase(t, i) == IF i = 1 THEN 0 ELSE BucketBase(t, i - 1) + BucketWidth(t)[i - 1]

TsParsed == IF t_build = "offset" THEN timestamp_parse(tt, t_iso)
            ELSE timestamp_parse_fixed(t_iso)

\* the parse succeeded and every component is in the range its variant accepts
TsAccepted ==
    /\ TsParsed.ok
    /\ t_build = "fixed" =>
          LET tm == TsParsed.tm
          IN  /\ tt.min_year <= tm.tm_year /\ tm.tm_year <= tt.max_year
              /\ 1 <= tm.tm_mon /\ tm.tm_mon <= 12
              /\ 1 <= tm.tm_mday /\ tm.tm_mday <= 31
              /\ 0 <= tm.tm_hour /\ tm.tm_hour <= 23
              /\ 0 <= tm.tm_min /\ tm.tm_min <= 59
              /\ 0 <= tm.tm_sec /\ tm.tm_sec <= 59

\* the string is the zero-padded form YYYY-MM-DDTHH:MM:SS of its own fields
TsZeroPadded ==
    LET tm == TsParsed.tm
    IN  t_iso.str = snprintf_iso(tm.tm_year, tm.tm_mon, tm.tm_mday,
                                 tm.tm_hour, tm.tm_min, tm.tm_sec)

\* C3: timestamp round trip.  For every zero-padded YYYY-MM-DDTHH:MM:SS that
\* parsing accepts, timestamp_decode(timestamp_encode(s)) = s.
C3_TimestampRoundTrip ==
    (/\ t_last \in {"roundtrip", "roundtrip_trap"}
     /\ ~t_iso.null
     /\ TsAccepted
     /\ TsZeroPadded)
    => /\ t_last = "roundtrip"
       /\ t_output = t_iso.str

\* C4: disjoint buckets.  Every successful timestamp_encode yields
\* token[i] = component_i - minimum_i + base_i with base_i the sum of the
\* widths of the buckets before i, so token[i] lies in bucket i and in no
\* other bucket.
C4_BucketsDisjoint ==
    (/\ t_last = "encode"
     /\ ~t_iso.null
     /\ TsAccepted)
    => LET tm == TsParsed.tm
           comp == <<tm.tm_year - tt.min_year, tm.tm_mon - 1, tm.tm_mday - 1,
                     tm.tm_hour, tm.tm_min, tm.tm_sec>>
       IN  \A i \in 1..6 :
              /\ t_tokens[i] = comp[i] + BucketBase(tt, i)
              /\ \A j \in 1..6 :
                    (/\ BucketBase(tt, j) <= t_tokens[i]
                     /\ t_tokens[i] < BucketBase(tt, j) + BucketWidth(tt)[j]) <=> (j = i)

\* the tokens that mean "invalid" at position i
TsSentinels(i) ==
    IF t_build = "offset" THEN {tt.offset}
    ELSE <<{0, 1}, {15}, {46}, {70}, {130}, {190}>>[i]

\* C10: timestamp_encode always emits six tokens, and when parsing or range
\* validation fails all six are the invalid sentinels of their positions,
\* never a mix of component tokens and sentinels.
C10_AllSentinelsOnFailure ==
    (t_last = "encode")
    => /\ t_count = 6
       /\ Len(t_tokens) = 6
       /\ (t_iso.null \/ ~TsAccepted) => \A i \in 1..6 : t_tokens[i] \in TsSentinels(i)

TsDecoded == t_last \in {"decode", "roundtrip", "decode_trap", "roundtrip_trap"}

TsTrapped == t_last \in {"decode_trap", "roundtrip_trap"}

\* C11: timestamp_decode returns "__invalid__" for the six tokens that
\* timestamp_encode produced for malformed input, and for every six-token
\* sequence in which at least one position holds that position's invalid
\* sentinel, whatever the other five tokens are.
C11_SentinelBearingInvalid ==
    (/\ TsDecoded
     /\ t_count = 6
     /\ \E i \in 1..6 : t_tokens[i] \in TsSentinels(i))
    => /\ ~TsTrapped
       /\ t_output = S_invalid

\* the most ints timestamp_decode may read of the tokens it was given
TsReadExtent ==
    IF t_build = "fixed" THEN {timestamp_decode_extent_fixed(t_count)}
    ELSE {timestamp_decode_extent(t_tokens, 1, t_tokens[1] - tt.offset, d) : d \in DivZero}

\* C12: timestamp_decode returns "__invalid__" for every token sequence whose
\* count is not exactly 6, whatever the token values are, and reads no token
\* beyond the given count.
C12_WrongCountInvalid ==
    (/\ TsDecoded
     /\ t_count # 6)
    => /\ ~TsTrapped
       /\ t_output = S_invalid
       /\ \A n \in TsReadExtent : n <= t_count

\* the output is the zero-padded form of a timestamp whose components are all
\* in range: year in [min_year, max_year], month 1..12, day 1..31, hour 0..23,
\* minute 0..59, second 0..60
TsOutputInRange ==
    /\ Len(t_output) = 19
    /\ \A i \in {1, 2, 3, 4, 6, 7, 9, 10, 12, 13, 15, 16, 18, 19} : t_output[i] \in 48..57
    /\ t_output[5] = 45 /\ t_output[8] = 45 /\ t_output[11] = 84
    /\ t_output[14] = 58 /\ t_output[17] = 58
    /\ LET two(i) == (t_output[i] - 48) * 10 + (t_output[i + 1] - 48)
           year == two(1) * 100 + two(3)
       IN  /\ tt.min_year <= year /\ year <= tt.max_year
           /\ 1 <= two(6) /\ two(6) <= 12
           /\ 1 <= two(9) /\ two(9) <= 31
           /\ two(12) <= 23
           /\ two(15) <= 59
           /\ two(18) <= 60

\* C13: timestamp_decode returns "__invalid__" for every six-token sequence in
\* which some token lies outside the valid range of its position's bucket, so
\* whenever it returns a formatted timestamp every component of it is in range.
C13_DecodedInRange ==
    (/\ TsDecoded
     /\ t_count = 6)
    => /\ ~TsTrapped
       /\ t_output # S_invalid => TsOutputInRange

\* the input has the shape YYYY-MM-DD{T or space}HH:MM:SS, all fields digits
TsIsoShaped ==
    /\ ~t_iso.null
    /\ Len(t_iso.str) = 19
    /\ \A i \in {1, 2, 3, 4, 6, 7, 9, 10, 12, 13, 15, 16, 18, 19} : t_iso.str[i] \in 48..57
    /\ t_iso.str[5] = 45 /\ t_iso.str[8] = 45 /\ t_iso.str[11] \in {84, 32}
    /\ t_iso.str[14] = 58 /\ t_iso.str[17] = 58

\* the fields of a shaped input are in the ranges the claim names
TsIsoInRange ==
    LET two(i) == (t_iso.str[i] - 48) * 10 + (t_iso.str[i + 1] - 48)
        year == two(1) * 100 + two(3)
    IN  /\ tt.min_year <= year /\ year <= tt.max_year
        /\ 1 <= two(6) /\ two(6) <= 12
        /\ 1 <= two(9) /\ two(9) <= 31
        /\ two(12) <= 23
        /\ two(15) <= 59
        /\ two(18) <= 60

\* C14: a string of shape YYYY-MM-DD{T or space}HH:MM:SS is accepted, and
\* encoded as a valid timestamp, exactly when year is in [min_year, max_year],
\* month in [1,12], day in [1,31], hour in [0,23], minute in [0,59] and second
\* in [0,60] (no month-length check); one field out of range rejects the whole
\* string.
C14_ParseAcceptsInRange ==
    (/\ t_last = "encode"
     /\ TsIsoShaped)
    => IF TsIsoInRange
       THEN /\ TsParsed.ok
            /\ \A i \in 1..6 : t_tokens[i] \notin TsSentinels(i)
       ELSE \A i \in 1..6 : t_tokens[i] \in TsSentinels(i)

\* a sorts before b in byte order: a is a proper prefix of b, or the first
\* byte in which they differ is smaller in a
ByteLess(a, b) ==
    \E k \in 1..(Len(b)) :
        /\ \A j \in 1..(k - 1) : j <= Len(a) /\ a[j] = b[j]
        /\ \/ k = Len(a) + 1
           \/ k <= Len(a) /\ a[k] < b[k]

Range(f) == {f[i] : i \in DOMAIN f}

\* C15: the stored vocabulary is strictly increasing in byte order and free
\* of duplicates; after a non-empty category_fit it holds exactly the distinct
\* strings of that input; and no call other than a non-empty fit, an init or
\* a free changes it, so over fits it is always that of the most recent
\* non-empty fit.
C15_VocabularyOfLastFit ==
    /\ [](/\ ct.num_categories = Len(ct.categories)
          /\ \A i \in 1..(ct.num_categories - 1) :
                ByteLess(ct.categories[i], ct.categories[i + 1])
          /\ (c_last = "fit" /\ Len(c_values) > 0)
                => /\ ct.fitted
                   /\ Range(ct.categories) = Range(c_values))
    /\ [][(~(c_last' = "fit" /\ Len(c_values') > 0) /\ c_last' \notin {"init", "free"})
             => ct'.categories = ct.categories]_vars

\* C15 witness: a fit whose input repeats a word and is not in order stored
\* its two distinct words in byte order.
C15_Witness ==
    /\ c_last = "fit"
    /\ Len(c_values) = 3
    /\ c_values[1] = c_values[3]
    /\ ByteLess(c_values[2], c_values[1])
    /\ ct.categories = <<c_values[2], c_values[1]>>

\* C16: category_fit with an empty input is a no-op: the vocabulary and the
\* fitted flag are the same after the call as before it.
C16_EmptyFitNoOp ==
    [][(c_last' = "fit" /\ c_values' = <<>>) => ct' = ct]_vars

\* C16 as amended: category_fit with an empty input leaves the vocabulary
\* unchanged and clears the fitted flag, so an unfitted tokenizer stays
\* unfitted and a fitted one becomes unfitted.
C16_EmptyFitUnfits ==
    [][(c_last' = "fit" /\ c_values' = <<>>)
          => /\ ct'.categories = ct.categories
             /\ ct'.num_categories = ct.num_categories
             /\ ct'.fitted = FALSE]_vars

\* C16 witness: an empty fit on a tokenizer that holds a vocabulary.
C16_Witness ==
    /\ c_last = "fit"
    /\ c_values = <<>>
    /\ ct.num_categories >= 2
    /\ ~ct.fitted

\* the values of the last fit input that are not NaN
BinFitNonNaN == {v \in Range(b_values) : ~isnan(v)}

\* C17: after binary_fit on a non-empty sequence the tokenizer is fitted with
\* min_val the minimum and max_val the maximum of the non-NaN input values,
\* and min_val <= max_val holds in every fitted state, also for inputs that
\* contain NaN values.
C17_FitMinMax ==
    /\ (b_last = "fit" /\ Len(b_values) > 0)
          => /\ bt.fitted
             /\ BinFitNonNaN # {}
                   => /\ bt.min_val \in BinFitNonNaN
                      /\ bt.max_val \in BinFitNonNaN
                      /\ \A v \in BinFitNonNaN : DLe(bt.min_val, v) /\ DLe(v, bt.max_val)
    /\ bt.fitted => DLe(bt.min_val, bt.max_val)

\* C18: binary_fit with an empty sequence leaves the tokenizer unfitted, also
\* when an earlier call fitted it; in every unfitted state binary_encode
\* returns the empty sequence for every value and binary_decode returns NaN
\* for every index sequence.
C18_UnfittedEmpty ==
    /\ (b_last = "fit" /\ b_values = <<>>) => ~bt.fitted
    /\ (~bt.fitted /\ BinEncoded) => b_indices = <<>>
    /\ (~bt.fitted /\ b_last \in {"decode", "roundtrip"}) => isnan(b_decoded)

\* C18 witness: a tokenizer that an empty fit left unfitted, with the bounds of
\* an earlier fit still in place, decoded a non-empty index sequence to NaN.
C18_Witness ==
    /\ b_last = "decode"
    /\ ~bt.fitted
    /\ bt.min_val.k = "num" /\ bt.max_val.k = "num" /\ bt.min_val.v < bt.max_val.v
    /\ bt.num_bits >= 2
    /\ Len(b_dec_in) > 0
    /\ isnan(b_decoded)

\* C19: the state of a tokenizer is read-only for encode and decode: a step
\* changes it only if it is an init, a fit or a free (numeric: min_val, max_val,
\* num_bits, fitted; categorical: vocabulary, fitted; timestamp: min_year,
\* max_year, offset, fitted), and what a numeric or categorical encode or
\* decode returns is determined by that state and the input alone.
C19_EncodeDecodeReadOnly ==
    /\ [][/\ b_last' \notin {"init", "fit"} => bt' = bt
          /\ c_last' \notin {"init", "fit", "free"} => ct' = ct
          /\ t_last' # "init" => tt' = tt]_vars
    /\ [](/\ BinEncoded => b_indices = binary_encode(bt, b_value)
          /\ b_last \in {"decode", "roundtrip"} => b_decoded = binary_decode(bt, b_dec_in)
          /\ CatEncoded => c_token = category_encode(ct, c_value)
          /\ c_last \in {"decode", "roundtrip"} => c_decoded = category_decode(ct, c_token))

\* C19 witness: a fitted numeric tokenizer encoded a value to a non-empty
\* sequence and decoded it.
C19_Witness ==
    /\ b_last = "roundtrip"
    /\ bt.fitted
    /\ bt.num_bits >= 2
    /\ Len(b_indices) >= 2
    /\ b_decoded.k = "num"

\* ceil(a / b) for a >= 0, b > 0
CeilDiv(a, b) == (a + b - 1) \div b

\* C20: bisection encoding is the binary fraction of the value's position.
\* For a fitted tokenizer with finite min < max, n = num_bits and min < v <= max,
\* let k = ceil((v - min) * 2^n / (max - min)) - 1: binary_encode(v) emits
\* exactly the positions b in 0..n-1 at which k has a 1 when position b
\* carries weight 2^(n-1-b), in strictly increasing order, so the output has
\* at most n indices, all in 0..n-1.
C20_BinaryFraction ==
    (/\ BinEncoded
     /\ bt.fitted
     /\ bt.min_val.k = "num" /\ bt.max_val.k = "num" /\ b_value.k = "num"
     /\ bt.min_val.v < bt.max_val.v
     /\ bt.min_val.v < b_value.v /\ b_value.v <= bt.max_val.v)
    => LET n == bt.num_bits
           k == CeilDiv((b_value.v - bt.min_val.v) * Pow2(n),
                        bt.max_val.v - bt.min_val.v) - 1
       IN  /\ Len(b_indices) <= n
           /\ \A i \in 1..(Len(b_indices) - 1) : b_indices[i] < b_indices[i + 1]
           /\ \A i \in 1..Len(b_indices) : 0 <= b_indices[i] /\ b_indices[i] < n
           /\ \A b \in 0..(n - 1) :
                 (b \in Range(b_indices)) <=> ((k \div Pow2(n - 1 - b)) % 2 = 1)

\* C20 witness: with three bits a value of the sixth of the eight bins was
\* encoded as the positions 0 and 2 (k = 5 = 101 in binary).
C20_Witness ==
    /\ b_last = "encode"
    /\ bt.fitted
    /\ bt.num_bits = 3
    /\ bt.min_val.k = "num" /\ bt.max_val.k = "num" /\ b_value.k = "num"
    /\ bt.min_val.v < bt.max_val.v
    /\ (b_value.v - bt.min_val.v) * 8 > 5 * (bt.max_val.v - bt.min_val.v)
    /\ (b_value.v - bt.min_val.v) * 8 < 6 * (bt.max_val.v - bt.min_val.v)
    /\ b_indices = <<0, 2>>

\* C21: for a fitted tokenizer with num_bits >= 1, finite bounds and a value v
\* in [min, max], binary_encode(v) is the empty sequence exactly when
\* v <= min + (max - min) / 2^num_bits (v = min included, and every v when
\* min = max); every other in-range value has a non-empty output.
C21_EmptyIffLowestBin ==
    (/\ BinEncoded
     /\ bt.fitted
     /\ bt.num_bits >= 1
     /\ bt.min_val.k = "num" /\ bt.max_val.k = "num" /\ b_value.k = "num"
     /\ bt.min_val.v <= b_value.v /\ b_value.v <= bt.max_val.v)
    => ((b_indices = <<>>)
          <=> ((b_value.v - bt.min_val.v) * Pow2(bt.num_bits)
                  <= bt.max_val.v - bt.min_val.v))

\* C21 witness: a value above min, at the upper edge of the lowest of at least
\* four bins, was encoded as the empty sequence.
C21_Witness ==
    /\ b_last = "encode"
    /\ bt.fitted
    /\ bt.num_bits >= 2
    /\ bt.min_val.k = "num" /\ bt.max_val.k = "num" /\ b_value.k = "num"
    /\ bt.min_val.v < b_value.v
    /\ (b_value.v - bt.min_val.v) * Pow2(bt.num_bits) = bt.max_val.v - bt.min_val.v
    /\ b_indices = <<>>

\* C22: in the offset variant with offset >= 0 the validity loop
\* ok = ok * tokens[i] / tokens[i-1] of timestamp_decode never divides by zero,
\* whatever the six ints are: every tokens[i-1] reached as a divisor is
\* strictly positive, because the loop is left as soon as ok <= 0.
C22_NoDivisionByZero ==
    (/\ TsDecoded
     /\ t_build = "offset"
     /\ tt.offset >= 0)
    => /\ ~TsTrapped
       /\ \A n \in TsReadExtent : \A j \in 1..(n - 1) : t_tokens[j] > 0

\* C22 witness: with a positive offset the loop was entered on tokens that
\* hold a zero after the first position, and the call returned "__invalid__".
C22_Witness ==
    /\ t_last = "decode"
    /\ t_build = "offset"
    /\ tt.offset >= 1
    /\ t_count = 6
    /\ t_tokens[1] > tt.offset
    /\ t_tokens[2] > 0
    /\ \E i \in 3..5 : t_tokens[i] = 0
    /\ t_output = S_invalid

\* C23: over any sequence of category_init, category_fit and category_free
\* calls, no block of the vocabulary (the array or one of its strings) is
\* passed to free a second time, and no released block is read: the record
\* of such an event stays empty.
C23_ReleasedOnce ==
    /\ ~c_mem.double_free
    /\ ~c_mem.use_after_free
====
